---------------------------- MODULE Spec2Model ----------------------------
(***************************************************************************)
(* Cattle Methane Reduction Tool (src/app.py).                             *)
(*                                                                         *)
(* The calculator works on Python floats, i.e. IEEE-754 binary64 values    *)
(* with round-to-nearest, ties-to-even.  The model keeps that arithmetic:  *)
(* a float is a sign, a 53-bit significand and a binary exponent, and      *)
(* every +, -, * and / of the source is one correctly rounded operation.   *)
(* Significands do not fit TLC's 32-bit integers, so they are kept as      *)
(* little-endian sequences of 14-bit limbs.                                *)
(***************************************************************************)
EXTENDS Integers, Sequences, FiniteSets, TLC

(***************************************************************************)
(* Natural numbers of arbitrary size: <<l1, ..., lk>> is                   *)
(* l1 + l2*Base + ... + lk*Base^(k-1), the top limb nonzero, 0 is << >>.   *)
(* The operations are functions, applied as BAdd[a, b].                    *)
(***************************************************************************)
\* the bits of a float's significand (binary64)
Precision == 53

LimbBits == 14

Base == 2 ^ LimbBits

BigNat == Seq(Nat)

Pow2(k) == 2 ^ k

BNorm[a \in BigNat] ==
    IF a = << >> THEN << >>
    ELSE IF a[Len(a)] = 0 THEN BNorm[SubSeq(a, 1, Len(a) - 1)]
    ELSE a

BFromNat[n \in Nat] ==
    IF n = 0 THEN << >> ELSE <<n % Base>> \o BFromNat[n \div Base]

BToNat[a \in BigNat] ==
    IF a = << >> THEN 0 ELSE Head(a) + Base * BToNat[Tail(a)]

\* -1, 0, 1 as a < b, a = b, a > b
BCmp[a \in BigNat, b \in BigNat] ==
    IF Len(a) < Len(b) THEN -1
    ELSE IF Len(a) > Len(b) THEN 1
    ELSE IF a = << >> THEN 0
    ELSE IF a[Len(a)] < b[Len(b)] THEN -1
    ELSE IF a[Len(a)] > b[Len(b)] THEN 1
    ELSE BCmp[BNorm[SubSeq(a, 1, Len(a) - 1)], BNorm[SubSeq(b, 1, Len(b) - 1)]]

\* limb i of a, 0 above the top
BLimb(a, i) == IF i <= Len(a) THEN a[i] ELSE 0

\* a + b + c for a carry c
BAddC[a \in BigNat, b \in BigNat, c \in Nat] ==
    IF a = << >> /\ b = << >> THEN (IF c = 0 THEN << >> ELSE <<c>>)
    ELSE <<(BLimb(a, 1) + BLimb(b, 1) + c) % Base>>
            \o BAddC[IF a = << >> THEN a ELSE Tail(a),
                     IF b = << >> THEN b ELSE Tail(b),
                     (BLimb(a, 1) + BLimb(b, 1) + c) \div Base]

BAdd[a \in BigNat, b \in BigNat] == BAddC[a, b, 0]

\* the limbs of a - b - br for a >= b + br
BSubB[a \in BigNat, b \in BigNat, br \in Nat] ==
    IF a = << >> THEN << >>
    ELSE <<(Head(a) - BLimb(b, 1) - br) % Base>>
            \o BSubB[Tail(a), IF b = << >> THEN b ELSE Tail(b),
                     IF Head(a) - BLimb(b, 1) - br < 0 THEN 1 ELSE 0]

\* a - b for a >= b
BSub[a \in BigNat, b \in BigNat] == BNorm[BSubB[a, b, 0]]

\* a * d + c for limbs d > 0 and c
BMulLimbC[a \in BigNat, d \in Nat, c \in Nat] ==
    IF a = << >> THEN (IF c = 0 THEN << >> ELSE <<c>>)
    ELSE <<(Head(a) * d + c) % Base>>
            \o BMulLimbC[Tail(a), d, (Head(a) * d + c) \div Base]

\* a * d for one limb d
BMulLimb[a \in BigNat, d \in Nat] ==
    IF d = 0 THEN << >> ELSE BMulLimbC[a, d, 0]

\* a * Base
BShlLimb[a \in BigNat] == IF a = << >> THEN << >> ELSE <<0>> \o a

BMul[a \in BigNat, b \in BigNat] ==
    IF a = << >> \/ b = << >> THEN << >>
    ELSE BAdd[BMulLimb[b, Head(a)], BShlLimb[BMul[Tail(a), b]]]

Zeros(k) == [i \in 1..k |-> 0]

\* a * 2^k
BShl[a \in BigNat, k \in Nat] ==
    IF a = << >> THEN << >>
    ELSE Zeros(k \div LimbBits) \o BMulLimb[a, Pow2(k % LimbBits)]

\* floor(a / 2^k)
BShr[a \in BigNat, k \in Nat] ==
    IF Len(a) <= k \div LimbBits THEN << >>
    ELSE BNorm[[i \in 1..(Len(a) - k \div LimbBits) |->
                  (a[i + k \div LimbBits] \div Pow2(k % LimbBits))
                  + (BLimb(a, i + k \div LimbBits + 1) % Pow2(k % LimbBits))
                    * Pow2(LimbBits - (k % LimbBits))]]

\* bit i (from 0) of a
BBit[a \in BigNat, i \in Nat] ==
    (BLimb(a, i \div LimbBits + 1) \div Pow2(i % LimbBits)) % 2

\* whether a mod 2^k is not 0
BLowNonzero[a \in BigNat, k \in Nat] ==
    \/ \E i \in 1..Len(a) : i <= k \div LimbBits /\ a[i] # 0
    \/ BLimb(a, k \div LimbBits + 1) % Pow2(k % LimbBits) # 0

\* the number of bits of a limb
LimbLen[d \in Nat] == IF d = 0 THEN 0 ELSE 1 + LimbLen[d \div 2]

\* the number of bits of a
BBitLen[a \in BigNat] ==
    IF a = << >> THEN 0
    ELSE LimbBits * (Len(a) - 1) + LimbLen[a[Len(a)]]

\* The next quotient limb of the long division by b, a number whose top limb
\* is at least Base/2, for a remainder r < b * Base: the limb estimated from
\* the top two limbs of r is the true one or up to 2 above it.
BDivLimb[r \in BigNat, b \in BigNat] ==
    LET est == (BLimb(r, Len(b) + 1) * Base + BLimb(r, Len(b))) \div b[Len(b)]
        hi  == IF est > Base - 1 THEN Base - 1 ELSE est
    IN  IF BCmp[BMulLimb[b, hi], r] <= 0 THEN hi
        ELSE IF BCmp[BMulLimb[b, hi - 1], r] <= 0 THEN hi - 1
        ELSE hi - 2

\* the quotient q and the remainder r < b so far, with the next limb d
BDivStep[q \in BigNat, r \in BigNat, b \in BigNat, d \in Nat] ==
    <<(IF q = << >> /\ d = 0 THEN << >> ELSE <<d>> \o q),
      BSub[BShlLimb[r], BMulLimb[b, d]]>>

\* <<floor(a * Base^k / b), the remainder>> from <<floor(a / b), a mod b>>
BDivSteps[q \in BigNat, r \in BigNat, b \in BigNat, k \in Nat] ==
    IF k = 0 THEN <<q, r>>
    ELSE BDivSteps[BDivStep[q, r, b, BDivLimb[BShlLimb[r], b]][1],
                   BDivStep[q, r, b, BDivLimb[BShlLimb[r], b]][2], b, k - 1]

DivLimbs == 4

\* <<floor(a * Base^DivLimbs / b), the remainder>> for a, b of Precision bits
BDivShifted[a \in BigNat, b \in BigNat] ==
    IF BCmp[a, b] >= 0
    THEN BDivSteps[<<1>>, BShl[BSub[a, b], DivLimbs * LimbBits - Precision],
                   BShl[b, DivLimbs * LimbBits - Precision], DivLimbs]
    ELSE BDivSteps[<< >>, BShl[a, DivLimbs * LimbBits - Precision],
                   BShl[b, DivLimbs * LimbBits - Precision], DivLimbs]

(***************************************************************************)
(* Python floats: [sign, man, exp] is sign * man * 2^exp with man a        *)
(* natural number of exactly Precision bits, or << >> for a zero.  The     *)
(* form is canonical, so two floats are the same value exactly when the    *)
(* records are equal (0.0 and -0.0 differ in sign only).  Exponents are    *)
(* unbounded: no value of the calculator comes near overflow or the        *)
(* subnormal range.  The operations are functions on Float, applied as     *)
(* FMul[x, y].                                                             *)
(***************************************************************************)
Float == [sign : {1, -1}, man : BigNat, exp : Int]

FZero(sign) == [sign |-> sign, man |-> << >>, exp |-> 0]

\* sign * n * 2^e for n of more than Precision bits, the s lowest of them
\* rounded away to the nearest, ties to even; something positive below one
\* unit of n is added to n when sticky
Signs == {1, -1}

FRoundShift[sign \in Signs, n \in BigNat, e \in Int, sticky \in BOOLEAN, s \in Nat] ==
    LET q  == BShr[n, s]
        up == /\ BBit[n, s - 1] = 1
              /\ (sticky \/ BLowNonzero[n, s - 1] \/ BBit[q, 0] = 1)
        m  == IF up THEN BAddC[q, << >>, 1] ELSE q
    IN  IF BBitLen[m] > Precision
        THEN [sign |-> sign, man |-> BShr[m, 1], exp |-> e + s + 1]
        ELSE [sign |-> sign, man |-> m, exp |-> e + s]

\* the float nearest to sign * n * 2^e (+ a positive amount below one unit of
\* n when sticky), ties to even
FRound[sign \in {1, -1}, n \in BigNat, e \in Int, sticky \in BOOLEAN] ==
    IF n = << >> THEN FZero(sign)
    ELSE IF BBitLen[n] <= Precision
    THEN [sign |-> sign, man |-> BShl[n, Precision - BBitLen[n]],
          exp |-> e - (Precision - BBitLen[n])]
    ELSE FRoundShift[sign, n, e, sticky, BBitLen[n] - Precision]

\* float(n) of a Python int
FInt[n \in Int] ==
    IF n < 0 THEN FRound[-1, BFromNat[-n], 0, FALSE]
    ELSE FRound[1, BFromNat[n], 0, FALSE]

FIsZero(x) == x.man = << >>

\* x * y
FMul[x \in Float, y \in Float] ==
    IF FIsZero(x) \/ FIsZero(y) THEN FZero(x.sign * y.sign)
    ELSE FRound[x.sign * y.sign, BMul[x.man, y.man], x.exp + y.exp, FALSE]

\* x / y, y not a zero
FDiv[x \in Float, y \in Float] ==
    IF FIsZero(x) THEN FZero(x.sign * y.sign)
    ELSE FRound[x.sign * y.sign, BDivShifted[x.man, y.man][1],
                x.exp - y.exp - DivLimbs * LimbBits,
                BDivShifted[x.man, y.man][2] # << >>]

\* -1, 0, 1 as |x| is below, equal to or above |y|, neither a zero
FCmpAbs(x, y) ==
    IF x.exp < y.exp THEN -1
    ELSE IF x.exp > y.exp THEN 1
    ELSE BCmp[x.man, y.man]

\* -1, 0, 1 as x < y, x == y, x > y (0.0 == -0.0)
FCmp[x \in Float, y \in Float] ==
    IF FIsZero(x) /\ FIsZero(y) THEN 0
    ELSE IF FIsZero(x) THEN -y.sign
    ELSE IF FIsZero(y) THEN x.sign
    ELSE IF x.sign # y.sign THEN x.sign
    ELSE x.sign * FCmpAbs(x, y)

FLe(x, y) == FCmp[x, y] <= 0

FLt(x, y) == FCmp[x, y] < 0

FEq(x, y) == FCmp[x, y] = 0

\* sign * (a - b) * 2^e for a # b
FDiff[a \in BigNat, b \in BigNat, e \in Int] ==
    IF BCmp[a, b] > 0 THEN FRound[1, BSub[a, b], e, FALSE]
    ELSE FRound[-1, BSub[b, a], e, FALSE]

\* x - y for x, y >= 0 (every subtraction of the calculator is 1.0 - f)
FSub[x \in Float, y \in Float] ==
    IF FIsZero(y) THEN x
    ELSE IF FIsZero(x) THEN [y EXCEPT !.sign = -1]
    ELSE IF x = y THEN FZero(1)
    ELSE IF x.exp < y.exp
    THEN FDiff[x.man, BShl[y.man, y.exp - x.exp], x.exp]
    ELSE FDiff[BShl[x.man, x.exp - y.exp], y.man, y.exp]

\* the float a decimal literal num/den denotes: the nearest to the quotient
FLit(num, den) == FDiv[FInt[num], FInt[den]]

\* round(v), ties to even, of v = n / 2^s
BRoundShift[n \in BigNat, s \in Nat] ==
    IF s = 0 THEN BToNat[n]
    ELSE BToNat[BShr[n, s]]
         + (IF /\ BBit[n, s - 1] = 1
               /\ (BLowNonzero[n, s - 1] \/ BBit[BShr[n, s], 0] = 1)
            THEN 1 ELSE 0)

\* round(x * 10^ndigits), ties to even, of x >= 0: the digits fmt prints
fmt(x, ndigits) ==
    IF FIsZero(x) THEN 0
    ELSE IF x.exp >= 0
    THEN BToNat[BShl[BMul[x.man, BFromNat[10 ^ ndigits]], x.exp]]
    ELSE BRoundShift[BMul[x.man, BFromNat[10 ^ ndigits]], -x.exp]

(***************************************************************************)
(* The program state.  The three tables and the three conversion factors   *)
(* are module-level globals of app.py ("Defaults (editable)"); a table is  *)
(* a dict, kept as the sequence of its <<key, value>> items in insertion   *)
(* order.  call/ret hold one invocation of a core function by any caller   *)
(* and prev the outcome of the same call made before; the remaining        *)
(* variables are the Streamlit script's.                                   *)
(***************************************************************************)
VARIABLES EMISSION_FACTORS_KG_PER_HEAD_YR, DIET_REDUCTION, ADDITIVE_REDUCTION,
          GWP_CH4, TREE_T_CO2E_PER_YEAR, CAR_T_CO2E_PER_YEAR,
          start, call, ret, prev,
          pc, submitted, n_animals, cattle_type, diet, additive, results, rows,
          invoked, screen

Globals ==
    <<EMISSION_FACTORS_KG_PER_HEAD_YR, DIET_REDUCTION, ADDITIVE_REDUCTION,
      GWP_CH4, TREE_T_CO2E_PER_YEAR, CAR_T_CO2E_PER_YEAR>>

uiVars == <<pc, submitted, n_animals, cattle_type, diet, additive, results,
            rows, invoked, screen>>

vars == <<Globals, start, call, ret, prev, uiVars>>

\* ------------------------------------------------------------------ dicts
Keys(d) == {d[i][1] : i \in DOMAIN d}

HasKey(d, k) == k \in Keys(d)

\* d[k] for a key of d
Get(d, k) == d[CHOOSE i \in DOMAIN d : d[i][1] = k][2]

\* ---------------------------------------------------- the configured values
DefaultEmissionFactors ==
    << <<"dairy", FInt[72]>>, <<"beef", FInt[60]>>, <<"buffalo", FInt[90]>> >>

DefaultDietReduction ==
    << <<"conventional", FLit(0, 100)>>, <<"improved", FLit(10, 100)>>,
       <<"high-quality", FLit(15, 100)>> >>

DefaultAdditiveReduction ==
    << <<"none", FLit(0, 100)>>, <<"seaweed", FLit(30, 100)>>,
       <<"3-NOP", FLit(31, 100)>>, <<"oils", FLit(10, 100)>> >>

\* The additive table as shipped and two edits of it: "none" alone, and two
\* additives of the same reduction (a tie in the what-if ranking).
AdditiveTables ==
    { DefaultAdditiveReduction,
      << <<"none", FLit(0, 100)>> >>,
      << <<"none", FLit(0, 100)>>, <<"oils", FLit(10, 100)>>,
         <<"seaweed", FLit(30, 100)>>, <<"3-NOP", FLit(30, 100)>> >> }

\* ---------------------------------------------------- how a call can end
Returned(v, names) == [status |-> "returned", value |-> v, assigned |-> names]

\* an exception leaves the function with the locals assigned so far
Raised(exc, names) == [status |-> exc, value |-> << >>, assigned |-> names]

NoRet == [status |-> "pending", value |-> << >>, assigned |-> << >>]

\* ------------------------------------------------------- helper functions
combined_reduction_fraction(f_diet, f_add) ==
    FSub[FInt[1], FMul[FSub[FInt[1], f_diet], FSub[FInt[1], f_add]]]

\* a baseline left in kilograms: the division by 1000 forgotten
baseline_kgCH4(EF_kg_per_head_yr, n) == FMul[EF_kg_per_head_yr, FInt[n]]

baseline_tCH4(EF_kg_per_head_yr, n) ==
    FDiv[FMul[EF_kg_per_head_yr, FInt[n]], FInt[1000]]

\* lines 127-153 of compute_results, the lookups done
results_dict(ef, f_diet, f_add, n) ==
    LET base_tCH4     == baseline_tCH4(ef, n)
        total_frac    == combined_reduction_fraction(f_diet, f_add)
        reduced_tCH4  == FMul[base_tCH4, total_frac]
        avoided_tCO2e == FMul[reduced_tCH4, GWP_CH4]
        cars  == IF FLt(FInt[0], CAR_T_CO2E_PER_YEAR)
                 THEN FDiv[avoided_tCO2e, CAR_T_CO2E_PER_YEAR] ELSE FInt[0]
        trees == IF FLt(FInt[0], TREE_T_CO2E_PER_YEAR)
                 THEN FDiv[avoided_tCO2e, TREE_T_CO2E_PER_YEAR] ELSE FInt[0]
        base_tCO2e == FMul[base_tCH4, GWP_CH4]
        base_cars  == IF FLt(FInt[0], CAR_T_CO2E_PER_YEAR)
                      THEN FDiv[base_tCO2e, CAR_T_CO2E_PER_YEAR] ELSE FInt[0]
        base_trees == IF FLt(FInt[0], TREE_T_CO2E_PER_YEAR)
                      THEN FDiv[base_tCO2e, TREE_T_CO2E_PER_YEAR] ELSE FInt[0]
    IN  [ef |-> ef, f_diet |-> f_diet, f_add |-> f_add, f_total |-> total_frac,
         baseline_tCH4 |-> base_tCH4, baseline_tCO2e |-> base_tCO2e,
         baseline_cars |-> base_cars, baseline_trees |-> base_trees,
         reduced_tCH4 |-> reduced_tCH4, avoided_tCO2e |-> avoided_tCO2e,
         cars_removed |-> cars, trees_equivalent |-> trees]

ResultLocals ==
    <<"ef", "f_diet", "f_add", "base_tCH4", "total_frac", "reduced_tCH4",
      "avoided_tCO2e", "cars", "trees", "base_tCO2e", "base_cars",
      "base_trees">>

\* compute_results with a herd-size check in front of the lookups
compute_results_checked(n, ct, dt, ad) ==
    IF n <= 0 THEN Raised("InvalidInputError", << >>)
    ELSE IF ~HasKey(EMISSION_FACTORS_KG_PER_HEAD_YR, ct)
    THEN Raised("KeyError", << >>)
    ELSE IF ~HasKey(DIET_REDUCTION, dt)
    THEN Raised("KeyError", <<"ef">>)
    ELSE IF ~HasKey(ADDITIVE_REDUCTION, ad)
    THEN Raised("KeyError", <<"ef", "f_diet">>)
    ELSE Returned(results_dict(Get(EMISSION_FACTORS_KG_PER_HEAD_YR, ct),
                               Get(DIET_REDUCTION, dt),
                               Get(ADDITIVE_REDUCTION, ad), n),
                  ResultLocals)

compute_results(n, ct, dt, ad) ==
    IF ~HasKey(EMISSION_FACTORS_KG_PER_HEAD_YR, ct)
    THEN Raised("KeyError", << >>)
    ELSE IF ~HasKey(DIET_REDUCTION, dt)
    THEN Raised("KeyError", <<"ef">>)
    ELSE IF ~HasKey(ADDITIVE_REDUCTION, ad)
    THEN Raised("KeyError", <<"ef", "f_diet">>)
    ELSE Returned(results_dict(Get(EMISSION_FACTORS_KG_PER_HEAD_YR, ct),
                               Get(DIET_REDUCTION, dt),
                               Get(ADDITIVE_REDUCTION, ad), n),
                  ResultLocals)

\* a row that applies the additive's fraction alone, the diet left out
what_if_row_additive_only(item, base_tCH4, f_diet) ==
    LET f_total  == item[2]
        tCH4_red == FMul[base_tCH4, f_total]
        tCO2e    == FMul[tCH4_red, GWP_CH4]
        cars     == FDiv[tCO2e, CAR_T_CO2E_PER_YEAR]
        trees    == FDiv[tCO2e, TREE_T_CO2E_PER_YEAR]
    IN  [additive |-> item[1], f_total |-> f_total, tCH4_reduced |-> tCH4_red,
         tCO2e_avoided |-> tCO2e, cars_removed |-> cars,
         trees_equivalent |-> trees]

\* one pass of the loop body of compute_what_if_rows, lines 167-181
what_if_row(item, base_tCH4, f_diet) ==
    LET f_total  == combined_reduction_fraction(f_diet, item[2])
        tCH4_red == FMul[base_tCH4, f_total]
        tCO2e    == FMul[tCH4_red, GWP_CH4]
        cars     == FDiv[tCO2e, CAR_T_CO2E_PER_YEAR]
        trees    == FDiv[tCO2e, TREE_T_CO2E_PER_YEAR]
    IN  [additive |-> item[1], f_total |-> f_total, tCH4_reduced |-> tCH4_red,
         tCO2e_avoided |-> tCO2e, cars_removed |-> cars,
         trees_equivalent |-> trees]

WhatIfRow ==
    [additive : STRING, f_total : Float, tCH4_reduced : Float,
     tCO2e_avoided : Float, cars_removed : Float, trees_equivalent : Float]

\* list.sort(key=..., reverse=True): descending by key, rows of equal key in
\* their original order.  Each row goes behind the rows whose key is >= its own.
SortInsert[sorted \in Seq(WhatIfRow), r \in WhatIfRow] ==
    LET p == Cardinality({i \in DOMAIN sorted :
                            FLe(r.tCO2e_avoided, sorted[i].tCO2e_avoided)})
    IN  SubSeq(sorted, 1, p) \o <<r>> \o SubSeq(sorted, p + 1, Len(sorted))

SortFrom[sorted \in Seq(WhatIfRow), rest \in Seq(WhatIfRow)] ==
    IF rest = << >> THEN sorted
    ELSE SortFrom[SortInsert[sorted, Head(rest)], Tail(rest)]

Reverse(q) == [i \in DOMAIN q |-> q[Len(q) + 1 - i]]

\* list.sort(key=...) without reverse=True: ascending, equal keys in order
sort_ascending(unsorted) == Reverse(SortFrom[<< >>, Reverse(unsorted)])

sort_reverse(unsorted) == SortFrom[<< >>, unsorted]

IsOffered(item) == item[1] # "none"

\* DIET_REDUCTION.get(diet, 0.0) in place of DIET_REDUCTION[diet]
compute_what_if_rows_default_diet(n, ct, dt) ==
    IF ~HasKey(EMISSION_FACTORS_KG_PER_HEAD_YR, ct)
    THEN Raised("KeyError", << >>)
    ELSE LET ef        == Get(EMISSION_FACTORS_KG_PER_HEAD_YR, ct)
             base_tCH4 == baseline_tCH4(ef, n)
             f_diet    == IF HasKey(DIET_REDUCTION, dt)
                          THEN Get(DIET_REDUCTION, dt) ELSE FInt[0]
             items     == SelectSeq(ADDITIVE_REDUCTION, IsOffered)
             unsorted  == [i \in DOMAIN items |->
                             what_if_row(items[i], base_tCH4, f_diet)]
         IN  Returned(sort_reverse(unsorted),
                      <<"ef", "base_tCH4", "f_diet", "rows">>)

compute_what_if_rows(n, ct, dt) ==
    IF ~HasKey(EMISSION_FACTORS_KG_PER_HEAD_YR, ct)
    THEN Raised("KeyError", << >>)
    ELSE IF ~HasKey(DIET_REDUCTION, dt)
    THEN Raised("KeyError", <<"ef", "base_tCH4">>)
    ELSE LET ef        == Get(EMISSION_FACTORS_KG_PER_HEAD_YR, ct)
             base_tCH4 == baseline_tCH4(ef, n)
             f_diet    == Get(DIET_REDUCTION, dt)
             items     == SelectSeq(ADDITIVE_REDUCTION, IsOffered)
             unsorted  == [i \in DOMAIN items |->
                             what_if_row(items[i], base_tCH4, f_diet)]
         IN  Returned(sort_reverse(unsorted),
                      <<"ef", "base_tCH4", "f_diet", "rows">>)

(***************************************************************************)
(* Process start, and the core functions called by an arbitrary caller.    *)
(***************************************************************************)
\* herd sizes are tried up to this size, above and below 0
MaxHerd == 2

\* value=100 of the herd-size input
DefaultHerd == 100

\* reduction fractions are tried in steps of 1/FractionSteps
FractionSteps == 20

NoCall == [fn |-> "", args |-> << >>]

\* a key that none of the tables holds
UnlistedKey == "unlisted"

HerdArgs == ((0 - MaxHerd)..MaxHerd) \cup {DefaultHerd}

CattleOptions == {"dairy", "beef", "buffalo"}

DietOptions == {"conventional", "improved", "high-quality"}

AdditiveOptions == {"none", "seaweed", "3-NOP", "oils"}

\* fractions of [0, 1): the steps, and the values of the two shipped tables
Fractions ==
    {FLit(k, FractionSteps) : k \in 0..(FractionSteps - 1)}
        \cup {DefaultDietReduction[i][2] : i \in DOMAIN DefaultDietReduction}
        \cup {DefaultAdditiveReduction[i][2] :
                i \in DOMAIN DefaultAdditiveReduction}

InitGlobals ==
    /\ EMISSION_FACTORS_KG_PER_HEAD_YR = DefaultEmissionFactors
    /\ DIET_REDUCTION = DefaultDietReduction
    /\ ADDITIVE_REDUCTION \in AdditiveTables
    /\ GWP_CH4 = FInt[28]
    /\ TREE_T_CO2E_PER_YEAR = FLit(21, 1000)
    /\ CAR_T_CO2E_PER_YEAR = FLit(46, 10)
    /\ start = Globals

InitCaller ==
    /\ call = NoCall
    /\ ret = NoRet
    /\ prev = NoRet

\* the script has not run yet
InitScript ==
    /\ pc = "idle"
    /\ submitted = FALSE
    /\ n_animals = DefaultHerd
    /\ cattle_type = "dairy"
    /\ diet = "conventional"
    /\ additive = "none"
    /\ results = << >>
    /\ rows = << >>
    /\ invoked = << >>
    /\ screen = << >>

Init == InitGlobals /\ InitCaller /\ InitScript

\* a caller passes arguments to combined_reduction_fraction
Call_combined_reduction_fraction ==
    /\ call = NoCall
    /\ \E f_diet \in Fractions, f_add \in Fractions :
          call' = [fn |-> "combined_reduction_fraction",
                   args |-> <<f_diet, f_add>>]
    /\ ret' = NoRet
    /\ UNCHANGED <<Globals, start, prev, uiVars>>

Run_combined_reduction_fraction ==
    /\ call.fn = "combined_reduction_fraction"
    /\ ret = NoRet
    /\ ret' = Returned(combined_reduction_fraction(call.args[1], call.args[2]),
                       << >>)
    /\ UNCHANGED <<Globals, start, call, prev, uiVars>>

\* a caller passes arguments to compute_results
Call_compute_results ==
    /\ call = NoCall
    /\ \E n \in HerdArgs, ct \in CattleOptions \cup {UnlistedKey},
          dt \in DietOptions \cup {UnlistedKey},
          ad \in AdditiveOptions \cup {UnlistedKey} :
          call' = [fn |-> "compute_results", args |-> <<n, ct, dt, ad>>]
    /\ ret' = NoRet
    /\ UNCHANGED <<Globals, start, prev, uiVars>>

\* compute_results runs to its return or its exception
Run_compute_results ==
    /\ call.fn = "compute_results"
    /\ ret = NoRet
    /\ ret' = compute_results(call.args[1], call.args[2], call.args[3],
                              call.args[4])
    /\ UNCHANGED <<Globals, start, call, prev, uiVars>>

Call_compute_what_if_rows ==
    /\ call = NoCall
    /\ \E n \in HerdArgs, ct \in CattleOptions \cup {UnlistedKey},
          dt \in DietOptions \cup {UnlistedKey} :
          call' = [fn |-> "compute_what_if_rows", args |-> <<n, ct, dt>>]
    /\ ret' = NoRet
    /\ UNCHANGED <<Globals, start, prev, uiVars>>

\* compute_what_if_rows dropping "none" from the table itself
\* (ADDITIVE_REDUCTION.pop("none")) instead of skipping it in the loop
Run_compute_what_if_rows_pop_none ==
    /\ call.fn = "compute_what_if_rows"
    /\ ret = NoRet
    /\ ret' = compute_what_if_rows(call.args[1], call.args[2], call.args[3])
    /\ ADDITIVE_REDUCTION' = SelectSeq(ADDITIVE_REDUCTION, IsOffered)
    /\ UNCHANGED <<EMISSION_FACTORS_KG_PER_HEAD_YR, DIET_REDUCTION, GWP_CH4,
                   TREE_T_CO2E_PER_YEAR, CAR_T_CO2E_PER_YEAR, start, call,
                   prev, uiVars>>

Run_compute_what_if_rows ==
    /\ call.fn = "compute_what_if_rows"
    /\ ret = NoRet
    /\ ret' = compute_what_if_rows(call.args[1], call.args[2], call.args[3])
    /\ UNCHANGED <<Globals, start, call, prev, uiVars>>

\* the caller keeps the outcome and makes the same call once more
Call_again ==
    /\ ret # NoRet
    /\ prev = NoRet
    /\ prev' = ret
    /\ ret' = NoRet
    /\ UNCHANGED <<Globals, start, call, uiVars>>

\* the caller is done with the outcome
Done ==
    /\ ret # NoRet
    /\ call' = NoCall
    /\ ret' = NoRet
    /\ prev' = NoRet
    /\ UNCHANGED <<Globals, start, uiVars>>

Next ==
    \/ Call_combined_reduction_fraction
    \/ Run_combined_reduction_fraction
    \/ Call_compute_results
    \/ Run_compute_results
    \/ Call_compute_what_if_rows
    \/ Run_compute_what_if_rows
    \/ Call_again
    \/ Done

Spec == Init /\ [][Next]_vars

(***************************************************************************)
(* The Streamlit script, lines 186-318: one run per interaction with the   *)
(* page.  pc is the position of the run, invoked the core calls it made so *)
(* far and screen the elements it rendered so far.                         *)
(***************************************************************************)
\* number_input(min_value=0, step=1): the herd sizes the widget can hold
HerdInputs == (0..MaxHerd) \cup {DefaultHerd}

Invocation(fn, args) == [fn |-> fn, args |-> args]

Element(kind) == [kind |-> kind, additive |-> "", top |-> FALSE]

\* one card of the what-if grid, lines 281-297
Card(r, best_additive_name) ==
    [kind |-> "card", additive |-> r.additive,
     top |-> (r.additive = best_additive_name)]

\* the page is loaded or refreshed: the form is drawn, submitted is False and
\* only the notes follow
Load ==
    /\ pc = "idle"
    /\ submitted' = FALSE
    /\ screen' = <<Element("notes")>>
    /\ invoked' = << >>
    /\ results' = << >>
    /\ rows' = << >>
    /\ UNCHANGED <<Globals, start, call, ret, prev, pc, n_animals, cattle_type,
                   diet, additive>>

\* "Calculate" is pressed: the script reruns with the values of the widgets
Submit ==
    /\ pc = "idle"
    /\ n_animals' \in HerdInputs
    /\ cattle_type' \in CattleOptions
    /\ diet' \in DietOptions
    /\ additive' \in AdditiveOptions
    /\ submitted' = TRUE
    /\ screen' = << >>
    /\ invoked' = << >>
    /\ results' = << >>
    /\ rows' = << >>
    /\ pc' = "validate"
    /\ UNCHANGED <<Globals, start, call, ret, prev>>

\* the herd-size test written as n_animals < 0: a herd of 0 goes on to the calculation
Validate_negative_only ==
    /\ pc = "validate"
    /\ IF n_animals < 0
       THEN /\ screen' = Append(screen, Element("warning"))
            /\ pc' = "idle"
       ELSE /\ pc' = "compute"
            /\ UNCHANGED screen
    /\ UNCHANGED <<Globals, start, call, ret, prev, submitted, n_animals,
                   cattle_type, diet, additive, results, rows, invoked>>

\* lines 209-212; st.stop() ends the run, the notes are not drawn
Validate ==
    /\ pc = "validate"
    /\ IF n_animals <= 0
       THEN /\ screen' = Append(screen, Element("warning"))
            /\ pc' = "idle"
       ELSE /\ pc' = "compute"
            /\ UNCHANGED screen
    /\ UNCHANGED <<Globals, start, call, ret, prev, submitted, n_animals,
                   cattle_type, diet, additive, results, rows, invoked>>

\* the what-if section shown whatever additive is selected
Compute_always_case_b ==
    /\ pc = "compute"
    /\ invoked' = Append(invoked, Invocation("compute_results",
                            <<n_animals, cattle_type, diet, additive>>))
    /\ \E out \in {compute_results(n_animals, cattle_type, diet, additive)} :
           IF out.status = "returned"
           THEN /\ results' = out.value
                /\ pc' = "case_b"
                /\ UNCHANGED screen
           ELSE /\ screen' = Append(screen, Element("exception"))
                /\ pc' = "idle"
                /\ UNCHANGED results
    /\ UNCHANGED <<Globals, start, call, ret, prev, submitted, n_animals,
                   cattle_type, diet, additive, rows>>

\* line 214; an exception ends the run with Streamlit's error box
Compute ==
    /\ pc = "compute"
    /\ invoked' = Append(invoked, Invocation("compute_results",
                            <<n_animals, cattle_type, diet, additive>>))
    /\ \E out \in {compute_results(n_animals, cattle_type, diet, additive)} :
           IF out.status = "returned"
           THEN /\ results' = out.value
                /\ pc' = IF additive # "none" THEN "case_a" ELSE "case_b"
                /\ UNCHANGED screen
           ELSE /\ screen' = Append(screen, Element("exception"))
                /\ pc' = "idle"
                /\ UNCHANGED results
    /\ UNCHANGED <<Globals, start, call, ret, prev, submitted, n_animals,
                   cattle_type, diet, additive, rows>>

\* lines 219-243
RenderCaseA ==
    /\ pc = "case_a"
    /\ screen' = Append(screen, Element("results"))
    /\ pc' = "notes"
    /\ UNCHANGED <<Globals, start, call, ret, prev, submitted, n_animals,
                   cattle_type, diet, additive, results, rows, invoked>>

\* lines 248-267
RenderCaseB ==
    /\ pc = "case_b"
    /\ screen' = screen \o <<Element("baseline"), Element("subheader")>>
    /\ pc' = "what_if"
    /\ UNCHANGED <<Globals, start, call, ret, prev, submitted, n_animals,
                   cattle_type, diet, additive, results, rows, invoked>>

\* line 270
WhatIf ==
    /\ pc = "what_if"
    /\ invoked' = Append(invoked, Invocation("compute_what_if_rows",
                            <<n_animals, cattle_type, diet>>))
    /\ \E out \in {compute_what_if_rows(n_animals, cattle_type, diet)} :
           IF out.status = "returned"
           THEN /\ rows' = out.value
                /\ pc' = "cards"
                /\ UNCHANGED screen
           ELSE /\ screen' = Append(screen, Element("exception"))
                /\ pc' = "idle"
                /\ UNCHANGED rows
    /\ UNCHANGED <<Globals, start, call, ret, prev, submitted, n_animals,
                   cattle_type, diet, additive, results>>

\* lines 272-298
RenderCards ==
    /\ pc = "cards"
    /\ IF rows = << >>
       THEN screen' = Append(screen, Element("info"))
       ELSE screen' = screen \o [i \in DOMAIN rows |->
                                   Card(rows[i], rows[1].additive)]
    /\ pc' = "notes"
    /\ UNCHANGED <<Globals, start, call, ret, prev, submitted, n_animals,
                   cattle_type, diet, additive, results, rows, invoked>>

\* lines 305-318
RenderNotes ==
    /\ pc = "notes"
    /\ screen' = Append(screen, Element("notes"))
    /\ pc' = "idle"
    /\ UNCHANGED <<Globals, start, call, ret, prev, submitted, n_animals,
                   cattle_type, diet, additive, results, rows, invoked>>

NextUI ==
    \/ Load
    \/ Submit
    \/ Validate
    \/ Compute
    \/ RenderCaseA
    \/ RenderCaseB
    \/ WhatIf
    \/ RenderCards
    \/ RenderNotes

SpecUI == Init /\ [][NextUI]_vars

(***************************************************************************)
(* The emission factor resolver of the design, section 4.1.  app.py has no *)
(* weight input and no weight-derived factor; this part follows the design *)
(* document, with the rest of the calculation as in compute_results.  An   *)
(* optional weight is << >> or <<w>>.                                      *)
(***************************************************************************)
ENERGY_DENSITY_MJ_PER_KG == FLit(1845, 100)

METHANE_ENERGY_MJ_PER_KG == FLit(5565, 100)

\* the five steps of section 4.1
tier2_emission_factor(weight, intake_fraction, ym_percent) ==
    LET dry_matter_intake == FMul[weight, intake_fraction]
        gross_energy      == FMul[dry_matter_intake, ENERGY_DENSITY_MJ_PER_KG]
        methane_energy    == FMul[gross_energy, FDiv[ym_percent, FInt[100]]]
        daily_methane     == FDiv[methane_energy, METHANE_ENERGY_MJ_PER_KG]
    IN  FMul[daily_methane, FInt[365]]

\* a resolver that keeps to the static table whenever the category has an entry
resolve_emission_factor_static_first(ct, weight, intake_fraction, ym_percent) ==
    IF HasKey(EMISSION_FACTORS_KG_PER_HEAD_YR, ct)
    THEN Returned(Get(EMISSION_FACTORS_KG_PER_HEAD_YR, ct), << >>)
    ELSE IF weight # << >> /\ FLt(FInt[0], weight[1])
    THEN Returned(tier2_emission_factor(weight[1], intake_fraction,
                                        ym_percent), << >>)
    ELSE Raised("ConfigurationError", << >>)

resolve_emission_factor(ct, weight, intake_fraction, ym_percent) ==
    IF weight # << >> /\ FLt(FInt[0], weight[1])
    THEN Returned(tier2_emission_factor(weight[1], intake_fraction,
                                        ym_percent), << >>)
    ELSE IF HasKey(EMISSION_FACTORS_KG_PER_HEAD_YR, ct)
    THEN Returned(Get(EMISSION_FACTORS_KG_PER_HEAD_YR, ct), << >>)
    ELSE Raised("ConfigurationError", << >>)

\* compute of section 6: Input -> Resolve EF -> Combine Reduction -> Compute
compute(n, ct, dt, ad, weight, intake_fraction, ym_percent) ==
    IF n < 1 THEN Raised("InvalidInputError", << >>)
    ELSE IF resolve_emission_factor(ct, weight, intake_fraction,
                                    ym_percent).status # "returned"
    THEN Raised("ConfigurationError", << >>)
    ELSE IF ~HasKey(DIET_REDUCTION, dt) \/ ~HasKey(ADDITIVE_REDUCTION, ad)
    THEN Raised("ConfigurationError", <<"ef">>)
    ELSE Returned(results_dict(resolve_emission_factor(ct, weight,
                                   intake_fraction, ym_percent).value,
                               Get(DIET_REDUCTION, dt),
                               Get(ADDITIVE_REDUCTION, ad), n),
                  ResultLocals)

\* no weight, weights that are not positive, and positive ones
Weights ==
    {<< >>, <<FInt[-1]>>, <<FInt[0]>>, <<FInt[1]>>, <<FInt[400]>>,
     <<FLit(6505, 10)>>}

\* <<intake fraction of body weight, methane-conversion percentage>> of a
\* diet: the pair the design documents for "improved", and another preset
Tier2Params ==
    {<<FLit(22, 1000), FLit(65, 10)>>, <<FLit(25, 1000), FLit(60, 10)>>}

Call_compute ==
    /\ call = NoCall
    /\ \E n \in {1, DefaultHerd}, ct \in CattleOptions \cup {UnlistedKey},
          dt \in DietOptions, ad \in {"none", "seaweed"},
          weight \in Weights, params \in Tier2Params :
          call' = [fn |-> "compute",
                   args |-> <<n, ct, dt, ad, weight, params[1], params[2]>>]
    /\ ret' = NoRet
    /\ UNCHANGED <<Globals, start, prev, uiVars>>

Run_compute ==
    /\ call.fn = "compute"
    /\ ret = NoRet
    /\ ret' = compute(call.args[1], call.args[2], call.args[3], call.args[4],
                      call.args[5], call.args[6], call.args[7])
    /\ UNCHANGED <<Globals, start, call, prev, uiVars>>

NextTier2 ==
    \/ Call_compute
    \/ Run_compute
    \/ Done

SpecTier2 == Init /\ [][NextTier2]_vars

(***************************************************************************)
(* The properties.                                                         *)
(***************************************************************************)
\* the invocation of fn in call/ret has ended
Ended(fn) == call.fn = fn /\ ret # NoRet

HasReturned(fn) == call.fn = fn /\ ret.status = "returned"

One == FInt[1]

FMax(x, y) == IF FLt(x, y) THEN y ELSE x

\* C1: for every diet fraction and additive fraction of [0, 1), the value of
\* combined_reduction_fraction lies in [max(f_d, f_a), 1), and it equals the
\* other fraction when one of the two is 0.
C1_CombinedFractionInRange ==
    HasReturned("combined_reduction_fraction") =>
        /\ FLe(FMax(call.args[1], call.args[2]), ret.value)
        /\ FLt(ret.value, One)
        /\ (FIsZero(call.args[2]) => FEq(ret.value, call.args[1]))
        /\ (FIsZero(call.args[1]) => FEq(ret.value, call.args[2]))

\* C2 as stated: compute_results, invoked with a herd size n <= 0, fails with
\* InvalidInputError and returns no result.
C2_NonPositiveHerdRejected ==
    (Ended("compute_results") /\ call.args[1] <= 0) =>
        ret.status = "InvalidInputError" /\ ret.value = << >>

KeysConfigured(ct, dt, ad) ==
    /\ ct \in Keys(EMISSION_FACTORS_KG_PER_HEAD_YR)
    /\ dt \in Keys(DIET_REDUCTION)
    /\ ad \in Keys(ADDITIVE_REDUCTION)

\* C2 as amended: compute_results makes no herd-size check.  Invoked with
\* n <= 0 it never fails with InvalidInputError: with configured keys it returns
\* a result whose baseline is ef*n/1000, zero or negative, and with an absent
\* key it fails with KeyError.
C2_NoHerdSizeCheck ==
    (Ended("compute_results") /\ call.args[1] <= 0) =>
        IF KeysConfigured(call.args[2], call.args[3], call.args[4])
        THEN /\ ret.status = "returned"
             /\ ret.value.baseline_tCH4
                  = FDiv[FMul[Get(EMISSION_FACTORS_KG_PER_HEAD_YR,
                                  call.args[2]), FInt[call.args[1]]],
                         FInt[1000]]
             /\ FLe(ret.value.baseline_tCH4, FInt[0])
        ELSE ret.status = "KeyError"

C2_NegativeBaselineReturned ==
    /\ HasReturned("compute_results")
    /\ call.args[1] < 0
    /\ FLt(ret.value.baseline_tCH4, FInt[0])

\* the locals that hold a mass or an equivalence
MassLocals ==
    {"base_tCH4", "reduced_tCH4", "avoided_tCO2e", "cars", "trees",
     "base_tCO2e", "base_cars", "base_trees", "rows"}

Assigned == {ret.assigned[i] : i \in DOMAIN ret.assigned}

\* a key of the ended invocation is absent from its table
KeyAbsent ==
    \/ /\ Ended("compute_results")
       /\ ~KeysConfigured(call.args[2], call.args[3], call.args[4])
    \/ /\ Ended("compute_what_if_rows")
       /\ ~KeysConfigured(call.args[2], call.args[3], "none")

\* C3 as stated: compute_results and compute_what_if_rows, invoked with a key
\* that is absent from its table, fail with a configuration error (KeyError)
\* at the lookup, before any mass or equivalence is computed and without
\* returning a result or a partial list.
C3_FailsBeforeAnyMass ==
    KeyAbsent =>
        /\ ret.status = "KeyError"
        /\ ret.value = << >>
        /\ Assigned \cap MassLocals = {}

\* C3 as amended: both fail with KeyError at the lookup without returning a
\* result or a partial list.  compute_results fails before any mass or
\* equivalence is computed; compute_what_if_rows looks the diet up after the
\* baseline, so with a configured category and an absent diet it has computed
\* the baseline methane mass, and nothing else, when it fails.
C3_FailsAtLookup ==
    KeyAbsent =>
        /\ ret.status = "KeyError"
        /\ ret.value = << >>
        /\ IF /\ call.fn = "compute_what_if_rows"
              /\ call.args[2] \in Keys(EMISSION_FACTORS_KG_PER_HEAD_YR)
           THEN Assigned \cap MassLocals = {"base_tCH4"}
           ELSE Assigned \cap MassLocals = {}

C3_BaselineComputedBeforeDietLookup ==
    /\ Ended("compute_what_if_rows")
    /\ call.args[3] = UnlistedKey
    /\ ret.status = "KeyError"
    /\ "base_tCH4" \in Assigned

\* C4: for every herd size n >= 1 and configured category, diet and additive,
\* compute_results returns baseline_tCH4 = ef*n/1000, reduced_tCH4 =
\* baseline_tCH4 * f_total, baseline_tCO2e = baseline_tCH4 * GWP,
\* avoided_tCO2e = reduced_tCH4 * GWP and the car and tree counts as the
\* avoided (respectively baseline) CO2e divided by the car and tree constants,
\* each a float operation; 100 dairy cattle, conventional diet, seaweed (30%)
\* gives, to the two decimals the page prints, 7.20 t baseline, 2.16 t
\* reduced, 60.48 t CO2e avoided, 13.15 cars and 2880.00 trees.
C4_ResultFormulas ==
    (HasReturned("compute_results") /\ call.args[1] >= 1) =>
        /\ KeysConfigured(call.args[2], call.args[3], call.args[4])
        /\ ret.value.ef = Get(EMISSION_FACTORS_KG_PER_HEAD_YR, call.args[2])
        /\ ret.value.baseline_tCH4
             = FDiv[FMul[ret.value.ef, FInt[call.args[1]]], FInt[1000]]
        /\ ret.value.f_total
             = FSub[One, FMul[FSub[One, Get(DIET_REDUCTION, call.args[3])],
                              FSub[One, Get(ADDITIVE_REDUCTION,
                                            call.args[4])]]]
        /\ ret.value.reduced_tCH4
             = FMul[ret.value.baseline_tCH4, ret.value.f_total]
        /\ ret.value.baseline_tCO2e = FMul[ret.value.baseline_tCH4, GWP_CH4]
        /\ ret.value.avoided_tCO2e = FMul[ret.value.reduced_tCH4, GWP_CH4]
        /\ ret.value.cars_removed
             = FDiv[ret.value.avoided_tCO2e, CAR_T_CO2E_PER_YEAR]
        /\ ret.value.trees_equivalent
             = FDiv[ret.value.avoided_tCO2e, TREE_T_CO2E_PER_YEAR]
        /\ ret.value.baseline_cars
             = FDiv[ret.value.baseline_tCO2e, CAR_T_CO2E_PER_YEAR]
        /\ ret.value.baseline_trees
             = FDiv[ret.value.baseline_tCO2e, TREE_T_CO2E_PER_YEAR]
        /\ (/\ call.args = <<100, "dairy", "conventional", "seaweed">>
            /\ Get(ADDITIVE_REDUCTION, "seaweed") = FLit(30, 100))
           => /\ fmt(ret.value.baseline_tCH4, 2) = 720
              /\ fmt(ret.value.reduced_tCH4, 2) = 216
              /\ fmt(ret.value.avoided_tCO2e, 2) = 6048
              /\ fmt(ret.value.cars_removed, 2) = 1315
              /\ fmt(ret.value.trees_equivalent, 2) = 288000

C4_SeaweedExampleComputed ==
    /\ HasReturned("compute_results")
    /\ call.args = <<100, "dairy", "conventional", "seaweed">>
    /\ fmt(ret.value.avoided_tCO2e, 2) = 6048

\* the additives of the table other than "none"
OfferedAdditives == Keys(ADDITIVE_REDUCTION) \ {"none"}

\* the place of a key in its table
TablePos(d, k) == CHOOSE i \in DOMAIN d : d[i][1] = k

\* C5: for every herd size n >= 1, category and diet, compute_what_if_rows
\* returns exactly one row for each additive of the table other than "none"
\* (the empty list when "none" is the only entry), in the order of
\* non-increasing avoided CO2e with ties in table order, so that the first row
\* is an additive of the highest reduction fraction.
C5_WhatIfRowsRanked ==
    (HasReturned("compute_what_if_rows") /\ call.args[1] >= 1) =>
        /\ Len(ret.value) = Cardinality(OfferedAdditives)
        /\ {ret.value[i].additive : i \in DOMAIN ret.value} = OfferedAdditives
        /\ \A i, j \in DOMAIN ret.value :
              i < j =>
                /\ FLe(ret.value[j].tCO2e_avoided, ret.value[i].tCO2e_avoided)
                /\ FEq(ret.value[j].tCO2e_avoided, ret.value[i].tCO2e_avoided)
                     => TablePos(ADDITIVE_REDUCTION, ret.value[i].additive)
                          < TablePos(ADDITIVE_REDUCTION, ret.value[j].additive)
        /\ ret.value # << >> =>
              \A a \in OfferedAdditives :
                  FLe(Get(ADDITIVE_REDUCTION, a),
                      Get(ADDITIVE_REDUCTION, ret.value[1].additive))

C5_TieRankedInTableOrder ==
    /\ HasReturned("compute_what_if_rows")
    /\ call.args[1] >= 1
    /\ Len(ret.value) = 3
    /\ FEq(ret.value[1].tCO2e_avoided, ret.value[2].tCO2e_avoided)
    /\ FLt(ret.value[3].tCO2e_avoided, ret.value[2].tCO2e_avoided)

\* C7: calling a core function twice with identical input yields identical
\* output, and no invocation of compute_results or compute_what_if_rows
\* changes the emission-factor, diet or additive table or a conversion
\* constant: the globals stay as they were at process start, whatever was
\* invoked before.
C7_IdempotentAndFrame ==
    /\ Globals = start
    /\ (prev # NoRet /\ ret # NoRet) => ret = prev

C7_SameCallRepeated ==
    /\ HasReturned("compute_what_if_rows")
    /\ prev # NoRet
    /\ ret = prev
    /\ Len(ret.value) = 3

\* C10: for every herd size n >= 1, category, diet and additive a other than
\* "none", the row for a that compute_what_if_rows(n, category, diet) returns
\* carries the same combined fraction, reduced methane mass, avoided CO2e,
\* car count and tree count as compute_results(n, category, diet, a).
C10_WhatIfRowMatchesResult ==
    (HasReturned("compute_what_if_rows") /\ call.args[1] >= 1) =>
        \A i \in DOMAIN ret.value :
            \E out \in {compute_results(call.args[1], call.args[2],
                                        call.args[3], ret.value[i].additive)} :
                /\ out.status = "returned"
                /\ ret.value[i].f_total = out.value.f_total
                /\ ret.value[i].tCH4_reduced = out.value.reduced_tCH4
                /\ ret.value[i].tCO2e_avoided = out.value.avoided_tCO2e
                /\ ret.value[i].cars_removed = out.value.cars_removed
                /\ ret.value[i].trees_equivalent = out.value.trees_equivalent

C10_RowsWithDietReduction ==
    /\ HasReturned("compute_what_if_rows")
    /\ call.args = <<DefaultHerd, "buffalo", "high-quality">>
    /\ Len(ret.value) = 3
    /\ ret.value[1].additive = "3-NOP"

\* the elements of one kind on the screen
Rendered(kind) == SelectSeq(screen, LAMBDA e : e.kind = kind)

\* C8: in every submission of the form with a herd size n <= 0 the script
\* warns and stops: neither compute_results nor compute_what_if_rows is ever
\* invoked with n <= 0, and nothing but the warning is rendered for that
\* submission.
C8_NonPositiveHerdStopsAtWarning ==
    /\ \A i \in DOMAIN invoked : invoked[i].args[1] >= 1
    /\ (submitted /\ n_animals <= 0 /\ pc # "validate") =>
          /\ pc = "idle"
          /\ invoked = << >>
          /\ screen = <<Element("warning")>>
          /\ results = << >>
          /\ rows = << >>

C8_WarnedAndStopped ==
    /\ submitted
    /\ n_animals = 0
    /\ pc = "idle"
    /\ screen = <<Element("warning")>>

\* C9: within one submission compute_what_if_rows is invoked only after
\* compute_results has returned and only when the selected additive is
\* "none"; with any other additive it is never invoked and no card is flagged,
\* and when it has returned a non-empty list exactly the first row's card is
\* flagged as the top recommendation.
C9_WhatIfOnlyForNone ==
    /\ \A i \in DOMAIN invoked :
          invoked[i].fn = "compute_what_if_rows" =>
              /\ i = 2
              /\ invoked[1].fn = "compute_results"
              /\ results # << >>
              /\ additive = "none"
    /\ additive # "none" =>
          /\ rows = << >>
          /\ \A i \in DOMAIN screen : ~screen[i].top
    /\ (rows # << >> /\ pc \in {"notes", "idle"}) =>
          /\ Len(Rendered("card")) = Len(rows)
          /\ \A i \in DOMAIN rows :
                /\ Rendered("card")[i].additive = rows[i].additive
                /\ Rendered("card")[i].top <=> (i = 1)

C9_TopRecommendationFlagged ==
    /\ pc = "idle"
    /\ additive = "none"
    /\ Len(rows) = 3
    /\ Len(invoked) = 2
    /\ Rendered("card")[1].top

=============================================================================
